---- MODULE Spec2Model ----
(***************************************************************************)
(* Model of cmd/moby/containerd.go: the supervisor of an isolated          *)
(* containerd instance (NewContainerd, Kill, Close), the image name        *)
(* normalisation (ImageName), the fetch subprocess (Fetch) and the two     *)
(* tar producers (Store, Bundle).                                          *)
(*                                                                         *)
(* Strings are sequences of one-character strings, so that splitting,      *)
(* replacing and joining are computed as the Go library computes them.     *)
(***************************************************************************)
EXTENDS Integers, Sequences, FiniteSets, TLC

(***************************************************************************)
(* Bounds of the model.                                                    *)
(***************************************************************************)
\* longest enumerated image reference (over the alphabet RefChars)
MaxLen == 4

(***************************************************************************)
(* String helpers (Go package strings).                                    *)
(***************************************************************************)
Min(a, b) == IF a < b THEN a ELSE b

HasPrefix(s, p) == Len(s) >= Len(p) /\ SubSeq(s, 1, Len(p)) = p

\* the indices of s, in order
Indices(s) == [k \in 1..Len(s) |-> k]

\* sub occurs in s at index k
MatchAt(s, sub, k) ==
    /\ k + Len(sub) - 1 <= Len(s)
    /\ \A j \in 1..Len(sub) : s[k + j - 1] = sub[j]

\* first index >= from at which sub occurs in s, or 0
IndexFrom(s, sub, from) ==
    LET hits == SelectSeq(Indices(s), LAMBDA k : k >= from /\ MatchAt(s, sub, k))
    IN  IF hits = <<>> THEN 0 ELSE hits[1]

Contains(s, sub) == IndexFrom(s, sub, 1) # 0

\* strings.SplitN(s, sep, n) for n > 0: at most n substrings, the last one
\* being the unsplit remainder
RECURSIVE SplitN(_, _, _)
SplitN(s, sep, n) ==
    LET k == IndexFrom(s, sep, 1)
    IN  IF n <= 1 \/ k = 0 THEN <<s>>
        ELSE <<SubSeq(s, 1, k - 1)>>
             \o SplitN(SubSeq(s, k + Len(sep), Len(s)), sep, n - 1)

\* number of occurrences of the character c in s
Count(s, c) == Cardinality({k \in 1..Len(s) : s[k] = c})

\* index of the last occurrence of the character c in s, or 0
LastIndex(s, c) ==
    LET hits == SelectSeq(Indices(s), LAMBDA k : s[k] = c)
    IN  IF hits = <<>> THEN 0 ELSE hits[Len(hits)]

(***************************************************************************)
(* String literals of the source.                                          *)
(***************************************************************************)
Slash == <<"/">>
Colon == <<":">>
DockerIo == <<"d","o","c","k","e","r",".","i","o","/">>
DockerIoLibrary == DockerIo \o <<"l","i","b","r","a","r","y","/">>
Latest == <<":","l","a","t","e","s","t">>

(***************************************************************************)
(* ImageName (containerd.go:125-140).                                      *)
(***************************************************************************)
\* a plausible slip: the two prefixes exchanged
ImageNameSwapped(image) ==
    LET slash == SplitN(image, Slash, 3)
        img1  == IF Len(slash) = 1 THEN DockerIo \o image
                 ELSE IF Len(slash) = 2 THEN DockerIoLibrary \o image
                 ELSE image
        colon == SplitN(img1, Colon, 2)
    IN  IF Len(colon) # 2 THEN img1 \o Latest ELSE img1

\* a slip: a bare name gets the namespace but not the registry
ImageNameShortPrefix(image) ==
    LET slash == SplitN(image, Slash, 3)
        img1  == IF Len(slash) = 1 THEN <<"l","i","b","r","a","r","y","/">> \o image
                 ELSE IF Len(slash) = 2 THEN DockerIo \o image
                 ELSE image
        colon == SplitN(img1, Colon, 2)
    IN  IF Len(colon) # 2 THEN img1 \o Latest ELSE img1

ImageName(image) ==
    LET slash == SplitN(image, Slash, 3)
        img1  == IF Len(slash) = 1 THEN DockerIoLibrary \o image
                 ELSE IF Len(slash) = 2 THEN DockerIo \o image
                 ELSE image
        colon == SplitN(img1, Colon, 2)
    IN  IF Len(colon) # 2 THEN img1 \o Latest ELSE img1

(***************************************************************************)
(* Inputs of the naming specification.                                     *)
(***************************************************************************)
RefChars == {"a", "/", ":"}

RECURSIVE StringsUpTo(_)
StringsUpTo(n) ==
    IF n = 0 THEN {<<>>}
    ELSE LET shorter == StringsUpTo(n - 1)
         IN  shorter \cup {Append(s, c) : s \in {t \in shorter : Len(t) = n - 1},
                                          c \in RefChars}

Alpine == <<"a","l","p","i","n","e">>
LibraryAlpine == <<"l","i","b","r","a","r","y","/">> \o Alpine
AlpineLatest == DockerIoLibrary \o Alpine \o Latest
Alpine35 == DockerIoLibrary \o Alpine \o <<":","3",".","5">>
\* a registry with a port and no tag: localhost:5000/ns/img
PortRef == <<"l","o","c","a","l","h","o","s","t",":","5","0","0","0","/",
             "n","s","/","i","m","g">>

ExampleRefs == {Alpine, LibraryAlpine, Alpine35, PortRef}

RefInputs == StringsUpTo(MaxLen) \cup ExampleRefs

(***************************************************************************)
(* More bounds.                                                            *)
(***************************************************************************)
\* instances (ctd values) the caller may hold
NumInst == 2
\* names ioutil.TempDir can choose from
NumDirs == 2

(***************************************************************************)
(* Paths and the configuration template (containerd.go:24-42).             *)
(***************************************************************************)
Digits == <<"1","2","3","4","5","6","7","8","9">>

\* ioutil.TempDir("", "moby-ctd"): os.TempDir() + "/moby-ctd" + suffix
DirName(n) == <<"/","t","m","p","/","m","o","b","y","-","c","t","d">> \o <<Digits[n]>>

DirNames == {DirName(n) : n \in 1..NumDirs}

RootName == <<"r","o","o","t">>
StateSfx == <<"/","s","t","a","t","e">>
RootSfx == Slash \o RootName
GrpcSfx == <<"/","c","o","n","t","a","i","n","e","r","d",".","s","o","c","k">>
DebugSfx == <<"/","d","e","b","u","g",".","s","o","c","k">>

\* positional drift: the arguments of the third and fourth slot exchanged
SprintfTomlDrift(a1, a2, a3, a4, a5) ==
    [state |-> a1 \o StateSfx, root |-> a2 \o RootSfx, snapshotter |-> a4,
     grpcAddress |-> a3 \o GrpcSfx, debugAddress |-> a5 \o DebugSfx]

\* fmt.Sprintf(toml, a1, a2, a3, a4, a5): the five %s slots in template order
SprintfToml(a1, a2, a3, a4, a5) ==
    [state |-> a1 \o StateSfx, root |-> a2 \o RootSfx, snapshotter |-> a3,
     grpcAddress |-> a4 \o GrpcSfx, debugAddress |-> a5 \o DebugSfx]

\* content of a path that does not exist
NoFile == [none |-> TRUE]
NoDir == [absent |-> TRUE]

(***************************************************************************)
(* Error values.                                                           *)
(***************************************************************************)
Nil == "nil"
ErrNoContainerd == "Cannot find containerd in path"
ErrNoDist == "Cannot find dist in path"

VARIABLES
    image,      \* naming: the argument of ImageName
    named,      \* naming: the results of ImageName so far, the first one of image
    goos,       \* runtime.GOOS of the build
    fs,         \* temp directories: name -> NoDir or [config |-> content of config.toml]
    taken,      \* the directory names TempDir has handed out so far
    inst,       \* the ctd values handed out: handle -> fields and process state
    ret         \* what the most recent call did and returned

nvars == <<image, named>>
lvars == <<goos, fs, taken, inst, ret>>
vars == <<image, named, goos, fs, taken, inst, ret>>

Insts == 1..NumInst

\* a handle no successful NewContainerd has produced yet
NoInst == [made |-> FALSE, dir |-> <<>>, shutdown |-> FALSE, proc |-> "none",
           closed |-> FALSE]

LInit ==
    /\ goos \in {"darwin", "linux"}
    /\ fs = [d \in DirNames |-> NoDir]
    /\ taken = {}
    /\ inst = [i \in Insts |-> NoInst]
    /\ ret = [op |-> "none"]

DirExists(d) == d \in DOMAIN fs /\ fs[d] # NoDir

(***************************************************************************)
(* NewContainerd (containerd.go:52-89).                                    *)
(***************************************************************************)
Naive == <<"n","a","i","v","e">>
Overlay == <<"o","v","e","r","l","a","y">>
Snapshotter(os) == IF os = "darwin" THEN Naive ELSE Overlay

\* The body of NewContainerd on the directory name d chosen by TempDir, with
\* `fail` the step whose library call returns an error ("none": no step).
\* Returns the error, the steps performed in order, the directory it leaves
\* behind, the config written and whether the process was started.
NewContainerdRun(d, fail, os) ==
    LET config == SprintfToml(d, d, Snapshotter(os), d, d)
    IN  IF fail = "tempdir" THEN
            [err |-> "ErrTempDir", evs |-> <<"TempDir">>, dirLeft |-> FALSE,
             config |-> NoFile, started |-> FALSE]
        ELSE IF fail = "write" THEN
            [err |-> "ErrWriteFile", evs |-> <<"TempDir", "WriteFile">>,
             dirLeft |-> TRUE, config |-> NoFile, started |-> FALSE]
        ELSE IF fail = "lookpath" THEN
            [err |-> ErrNoContainerd, evs |-> <<"TempDir", "WriteFile", "LookPath">>,
             dirLeft |-> TRUE, config |-> config, started |-> FALSE]
        ELSE IF fail = "start" THEN
            [err |-> "ErrStart",
             evs |-> <<"TempDir", "WriteFile", "LookPath", "Start">>,
             dirLeft |-> TRUE, config |-> config, started |-> FALSE]
        ELSE
            [err |-> Nil, evs |-> <<"TempDir", "WriteFile", "LookPath", "Start">>,
             dirLeft |-> TRUE, config |-> config, started |-> TRUE]

CreateFails == {"none", "tempdir", "write", "lookpath", "start"}

\* the handle the next successful NewContainerd returns
FreeInst(i) == ~inst[i].made /\ \A j \in Insts : j < i => inst[j].made

NewContainerd(i, d, fail) ==
    /\ FreeInst(i)
    \* TempDir creates a directory that did not exist, under a name with a
    \* random suffix: the model takes the suffixes of one run to be distinct,
    \* so a name is handed out once. With every name taken TempDir fails.
    /\ (~DirExists(d) /\ d \notin taken) \/ fail = "tempdir"
    /\ LET r == NewContainerdRun(d, fail, goos)
       IN  /\ fs' = IF r.dirLeft THEN [fs EXCEPT ![d] = [config |-> r.config]] ELSE fs
           /\ inst' = IF r.err = Nil
                      THEN [inst EXCEPT ![i] = [made |-> TRUE, dir |-> d,
                                                shutdown |-> FALSE, proc |-> "running",
                                                closed |-> FALSE]]
                      ELSE inst
           /\ ret' = [op |-> "Create", i |-> IF r.err = Nil THEN i ELSE 0,
                      err |-> r.err, evs |-> r.evs,
                      dir |-> IF fail = "tempdir" THEN <<>> ELSE d]
           /\ taken' = IF r.dirLeft THEN taken \cup {d} ELSE taken
    /\ UNCHANGED goos

\* the daemon exits on its own; nobody has waited for it yet
DaemonExit(i) ==
    /\ inst[i].made /\ inst[i].proc = "running"
    /\ inst' = [inst EXCEPT ![i].proc = "exited"]
    /\ UNCHANGED <<goos, fs, taken, ret>>

(***************************************************************************)
(* Kill (containerd.go:93-104).                                            *)
(***************************************************************************)
\* a slip: a failed signal clears the flag
KillRunClearsFlag(c, sigOk, waitOk) ==
    IF c.proc = "reaped" \/ ~sigOk THEN
        [c |-> [c EXCEPT !.shutdown = FALSE], err |-> "ErrSignal", evs |-> <<"signal">>,
         waitErr |-> Nil]
    ELSE
        [c |-> [c EXCEPT !.proc = "reaped", !.shutdown = TRUE], err |-> Nil,
         evs |-> <<"signal", "wait", "setflag">>,
         waitErr |-> IF waitOk THEN Nil ELSE "ErrWait"]

\* a slip: the error of the wait is returned and the flag left alone
KillRunChecksWait(c, sigOk, waitOk) ==
    IF c.proc = "reaped" \/ ~sigOk THEN
        [c |-> c, err |-> "ErrSignal", evs |-> <<"signal">>, waitErr |-> Nil]
    ELSE IF ~waitOk THEN
        [c |-> [c EXCEPT !.proc = "reaped"], err |-> "ErrWait",
         evs |-> <<"signal", "wait">>, waitErr |-> "ErrWait"]
    ELSE
        [c |-> [c EXCEPT !.proc = "reaped", !.shutdown = TRUE], err |-> Nil,
         evs |-> <<"signal", "wait", "setflag">>, waitErr |-> Nil]

\* a slip: Kill returns at once when the flag is set
KillRunConsultsFlag(c, sigOk, waitOk) ==
    IF c.shutdown THEN [c |-> c, err |-> Nil, evs |-> <<>>, waitErr |-> Nil]
    ELSE IF c.proc = "reaped" \/ ~sigOk THEN
        [c |-> c, err |-> "ErrSignal", evs |-> <<"signal">>, waitErr |-> Nil]
    ELSE
        [c |-> [c EXCEPT !.proc = "reaped", !.shutdown = TRUE], err |-> Nil,
         evs |-> <<"signal", "wait", "setflag">>,
         waitErr |-> IF waitOk THEN Nil ELSE "ErrWait"]

\* The body of Kill on the instance record c. sigOk: the kill system call
\* succeeds; waitOk: cmd.Wait returns no error. waitErr is what Wait returned,
\* which Kill assigns to the blank identifier. os.Process.Kill on a process that Wait has already reaped
\* returns "os: process already finished" without a system call.
KillRun(c, sigOk, waitOk) ==
    IF c.proc = "reaped" \/ ~sigOk THEN
        [c |-> c, err |-> "ErrSignal", evs |-> <<"signal">>, waitErr |-> Nil]
    ELSE
        [c |-> [c EXCEPT !.proc = "reaped", !.shutdown = TRUE], err |-> Nil,
         evs |-> <<"signal", "wait", "setflag">>,
         waitErr |-> IF waitOk THEN Nil ELSE "ErrWait"]

\* a slip: the flag is one package-level variable instead of a field
KillSharedFlag(i, sigOk, waitOk) ==
    /\ inst[i].made
    /\ LET r == KillRun(inst[i], sigOk, waitOk)
       IN  /\ inst' = [j \in Insts |->
                        IF j = i THEN r.c
                        ELSE IF inst[j].made /\ r.err = Nil
                             THEN [inst[j] EXCEPT !.shutdown = TRUE]
                             ELSE inst[j]]
           /\ ret' = [op |-> "Kill", i |-> i, err |-> r.err, evs |-> r.evs,
                      waitErr |-> r.waitErr]
    /\ UNCHANGED <<goos, fs, taken>>

Kill(i, sigOk, waitOk) ==
    /\ inst[i].made
    /\ LET r == KillRun(inst[i], sigOk, waitOk)
       IN  /\ inst' = [inst EXCEPT ![i] = r.c]
           /\ ret' = [op |-> "Kill", i |-> i, err |-> r.err, evs |-> r.evs,
                      waitErr |-> r.waitErr]
    /\ UNCHANGED <<goos, fs, taken>>

(***************************************************************************)
(* Close (containerd.go:107-121).                                          *)
(***************************************************************************)
\* a slip: removing a path that does not exist is an error, as with os.Remove
RemoveAllStrict(f, d, rm) ==
    IF f[d] = NoDir THEN [fs |-> f, err |-> "ErrRemoveAll"]
    ELSE IF rm = "ok" THEN [fs |-> [f EXCEPT ![d] = NoDir], err |-> Nil]
    ELSE [fs |-> f, err |-> "ErrRemoveAll"]

\* os.RemoveAll(d): "ok" removes the tree (a path that does not exist is
\* success); "fail" returns an error with the directory still there.
RemoveAll(f, d, rm) ==
    IF f[d] = NoDir \/ rm = "ok" THEN [fs |-> [f EXCEPT ![d] = NoDir], err |-> Nil]
    ELSE [fs |-> f, err |-> "ErrRemoveAll"]

RmOutcomes == {"ok", "fail"}

\* a slip: the directory is removed only on the path that also kills
CloseRunSkipRemove(c, f, sigOk, waitOk, rm) ==
    LET k == KillRun(c, sigOk, waitOk)
        r == RemoveAll(f, c.dir, rm)
    IN  IF c.shutdown THEN [c |-> [c EXCEPT !.closed = TRUE], fs |-> f, err |-> Nil,
                            evs |-> <<>>]
        ELSE IF k.err # Nil THEN [c |-> k.c, fs |-> f, err |-> k.err, evs |-> k.evs]
        ELSE [c |-> [k.c EXCEPT !.closed = (@ \/ r.err = Nil)], fs |-> r.fs,
              err |-> r.err, evs |-> k.evs \o <<"RemoveAll">>]

\* a slip: the error of Kill is dropped and the directory removed regardless
CloseRunIgnoreKill(c, f, sigOk, waitOk, rm) ==
    LET k == IF ~c.shutdown THEN KillRun(c, sigOk, waitOk)
             ELSE [c |-> c, err |-> Nil, evs |-> <<>>]
        r == RemoveAll(f, c.dir, rm)
    IN  [c |-> [k.c EXCEPT !.closed = (@ \/ r.err = Nil)], fs |-> r.fs,
         err |-> r.err, evs |-> k.evs \o <<"RemoveAll">>]

\* a slip: the flag is set although the signal failed
CloseRunMarksShutdown(c, f, sigOk, waitOk, rm) ==
    LET k == IF ~c.shutdown THEN KillRun(c, sigOk, waitOk)
             ELSE [c |-> c, err |-> Nil, evs |-> <<>>]
        r == RemoveAll(f, c.dir, rm)
    IN  IF k.err # Nil THEN [c |-> [k.c EXCEPT !.shutdown = TRUE], fs |-> f,
                             err |-> k.err, evs |-> k.evs]
        ELSE [c |-> [k.c EXCEPT !.closed = (@ \/ r.err = Nil)], fs |-> r.fs,
              err |-> r.err, evs |-> k.evs \o <<"RemoveAll">>]

\* a slip: a successful Close resets the flag
CloseRunResetsFlag(c, f, sigOk, waitOk, rm) ==
    LET k == IF ~c.shutdown THEN KillRun(c, sigOk, waitOk)
             ELSE [c |-> c, err |-> Nil, evs |-> <<>>]
        r == RemoveAll(f, c.dir, rm)
    IN  IF k.err # Nil THEN [c |-> k.c, fs |-> f, err |-> k.err, evs |-> k.evs]
        ELSE [c |-> [k.c EXCEPT !.closed = (@ \/ r.err = Nil),
                                !.shutdown = (r.err # Nil)],
              fs |-> r.fs, err |-> r.err, evs |-> k.evs \o <<"RemoveAll">>]

\* The body of Close on the instance record c and the file system f.
CloseRun(c, f, sigOk, waitOk, rm) ==
    LET k == IF ~c.shutdown THEN KillRun(c, sigOk, waitOk)
             ELSE [c |-> c, err |-> Nil, evs |-> <<>>]
        r == RemoveAll(f, c.dir, rm)
    IN  IF k.err # Nil THEN [c |-> k.c, fs |-> f, err |-> k.err, evs |-> k.evs]
        ELSE [c |-> [k.c EXCEPT !.closed = (@ \/ r.err = Nil)], fs |-> r.fs,
              err |-> r.err, evs |-> k.evs \o <<"RemoveAll">>]

Close(i, sigOk, waitOk, rm) ==
    /\ inst[i].made
    /\ LET r == CloseRun(inst[i], fs, sigOk, waitOk, rm)
       IN  /\ inst' = [inst EXCEPT ![i] = r.c]
           /\ fs' = r.fs
           /\ ret' = [op |-> "Close", i |-> i, err |-> r.err, evs |-> r.evs,
                      before |-> inst[i]]
    /\ UNCHANGED <<goos, taken>>

(***************************************************************************)
(* Path helpers (Go package path/filepath).                                *)
(***************************************************************************)
\* strings.Replace(s, old, "", -1): every non-overlapping occurrence of old,
\* found from the left, is removed
RECURSIVE RemoveEvery(_, _)
RemoveEvery(s, old) ==
    LET k == IndexFrom(s, old, 1)
    IN  IF old = <<>> \/ k = 0 THEN s
        ELSE SubSeq(s, 1, k - 1) \o RemoveEvery(SubSeq(s, k + Len(old), Len(s)), old)

TrimPrefix(s, p) == IF HasPrefix(s, p) THEN SubSeq(s, Len(p) + 1, Len(s)) ELSE s

\* filepath.Clean on the paths that occur here (no "." or ".." elements):
\* runs of separators collapse to one and a trailing separator is dropped
Clean(s) ==
    LET keep == SelectSeq(Indices(s),
                          LAMBDA k : \/ s[k] # "/"
                                     \/ k < Len(s) /\ s[k + 1] # "/"
                                     \/ \A j \in 1..Len(s) : s[j] = "/" /\ k = 1)
    IN  [j \in 1..Len(keep) |-> s[keep[j]]]

\* filepath.Join(a, b): empty elements are ignored, the rest joined by a
\* separator and cleaned
Join(a, b) ==
    IF a = <<>> THEN Clean(b)
    ELSE IF b = <<>> THEN Clean(a)
    ELSE Clean(a \o Slash \o b)

(***************************************************************************)
(* Inputs of the calls.                                                    *)
(***************************************************************************)
BundlePaths == {<<"c">>, <<"c","/","d">>}
Configs == {<<>>, <<"{","}">>}
\* the supervisor specification draws from these
FewRefs == {Alpine}
FewPaths == {<<"c">>}
FewConfigs == {<<"{","}">>}
FewOutcomes == {"nonzero", "zero"}

(***************************************************************************)
(* Fetch (containerd.go:143-161).                                          *)
(***************************************************************************)
SockName == <<"c","o","n","t","a","i","n","e","r","d",".","s","o","c","k">>

\* what became of the subprocess cmd.Run started: "spawn" (it could not be
\* started), "nonzero" or "zero" (its exit status)
RunOutcomes == {"spawn", "nonzero", "zero"}

\* a slip: the reference is passed on as the caller wrote it
FetchRunRaw(c, repo, trust, look, outcome) ==
    IF ~look THEN [err |-> ErrNoDist, cmds |-> <<>>]
    ELSE [err |-> IF outcome = "zero" THEN Nil
                  ELSE IF outcome = "spawn" THEN "ErrSpawn" ELSE "ErrExit",
          cmds |-> << [argv |-> <<"--address", Join(c.dir, SockName), "--root",
                                  Join(c.dir, RootName), "fetch", repo>>,
                       started |-> outcome # "spawn",
                       status |-> IF outcome = "zero" THEN 0 ELSE 1] >>]

\* The body of Fetch on the instance record c. look: exec.LookPath finds
\* dist. Returns the error and the subprocesses launched, in order.
FetchRun(c, repo, trust, look, outcome) ==
    IF ~look THEN [err |-> ErrNoDist, cmds |-> <<>>]
    ELSE [err |-> IF outcome = "zero" THEN Nil
                  ELSE IF outcome = "spawn" THEN "ErrSpawn" ELSE "ErrExit",
          cmds |-> << [argv |-> <<"--address", Join(c.dir, SockName), "--root",
                                  Join(c.dir, RootName), "fetch", ImageName(repo)>>,
                       started |-> outcome # "spawn",
                       status |-> IF outcome = "zero" THEN 0 ELSE 1] >>]

Fetch(i, repo, trust, look, outcome) ==
    /\ inst[i].made
    /\ LET r == FetchRun(inst[i], repo, trust, look, outcome)
       IN  ret' = [op |-> "Fetch", i |-> i, err |-> r.err, cmds |-> r.cmds,
                   repo |-> repo, trust |-> trust, look |-> look]
    /\ UNCHANGED <<goos, fs, taken, inst>>

(***************************************************************************)
(* Tar archives: the entries written to a tar.Writer, in order.            *)
(***************************************************************************)
\* tarPrefix(path, tw), path ending in "/": a directory header for every
\* non-empty prefix of path that ends before a separator
TarPrefix(path) ==
    LET cuts == SelectSeq(Indices(path),
                          LAMBDA k : k >= 2 /\ path[k] = "/" /\ path[k - 1] # "/")
    IN  [j \in 1..Len(cuts) |->
            [name |-> SubSeq(path, 1, cuts[j] - 1), type |-> "dir", size |-> 0,
             body |-> <<>>]]

RegularEntries(ar) == SelectSeq(ar, LAMBDA e : e.type = "reg")

(***************************************************************************)
(* Bundle (containerd.go:214-259).                                         *)
(***************************************************************************)
ConfigJson == <<"c","o","n","f","i","g",".","j","s","o","n">>
ImageFile == <<"i","m","a","g","e">>

\* the tar steps of Bundle, in order; tarFail = k makes the k-th return an error
BundleSteps == <<"tarPrefix", "WriteHeader", "Copy", "WriteHeader", "Copy", "Close">>

\* a slip: the image entry holds the normalised reference
BundleRunNormalised(c, path, img, config, trust, tarFail, look, outcome) ==
    LET out == TarPrefix(path \o Slash)
               \o <<[name |-> path \o Slash \o ConfigJson, type |-> "reg",
                     size |-> Len(config), body |-> config],
                    [name |-> path \o Slash \o ImageFile, type |-> "reg",
                     size |-> Len(ImageName(img)), body |-> ImageName(img)]>>
        f == FetchRun(c, img, trust, look, outcome)
    IN  IF tarFail # 0 THEN
            [bytes |-> <<>>, err |-> "ErrTar", cmds |-> <<>>,
             evs |-> SubSeq(BundleSteps, 1, tarFail)]
        ELSE IF f.err # Nil THEN
            [bytes |-> <<>>, err |-> f.err, cmds |-> f.cmds,
             evs |-> BundleSteps \o <<"Fetch">>]
        ELSE [bytes |-> out, err |-> Nil, cmds |-> f.cmds,
              evs |-> BundleSteps \o <<"Fetch">>]

\* a slip: the archive is returned although Fetch failed
BundleRunKeepsArchive(c, path, img, config, trust, tarFail, look, outcome) ==
    LET out == TarPrefix(path \o Slash)
               \o <<[name |-> path \o Slash \o ConfigJson, type |-> "reg",
                     size |-> Len(config), body |-> config],
                    [name |-> path \o Slash \o ImageFile, type |-> "reg",
                     size |-> Len(img), body |-> img]>>
        f == FetchRun(c, img, trust, look, outcome)
    IN  IF tarFail # 0 THEN
            [bytes |-> <<>>, err |-> "ErrTar", cmds |-> <<>>,
             evs |-> SubSeq(BundleSteps, 1, tarFail)]
        ELSE [bytes |-> out, err |-> f.err, cmds |-> f.cmds,
              evs |-> BundleSteps \o <<"Fetch">>]

\* The body of Bundle on the instance record c. Returns the byte result (as
\* the archive's entries), the error, the subprocesses launched and the steps
\* performed in order.
BundleRun(c, path, img, config, trust, tarFail, look, outcome) ==
    LET out == TarPrefix(path \o Slash)
               \o <<[name |-> path \o Slash \o ConfigJson, type |-> "reg",
                     size |-> Len(config), body |-> config],
                    [name |-> path \o Slash \o ImageFile, type |-> "reg",
                     size |-> Len(img), body |-> img]>>
        f == FetchRun(c, img, trust, look, outcome)
    IN  IF tarFail # 0 THEN
            [bytes |-> <<>>, err |-> "ErrTar", cmds |-> <<>>,
             evs |-> SubSeq(BundleSteps, 1, tarFail)]
        ELSE IF f.err # Nil THEN
            [bytes |-> <<>>, err |-> f.err, cmds |-> f.cmds,
             evs |-> BundleSteps \o <<"Fetch">>]
        ELSE [bytes |-> out, err |-> Nil, cmds |-> f.cmds,
              evs |-> BundleSteps \o <<"Fetch">>]

Bundle(i, path, img, config, trust, tarFail, look, outcome) ==
    /\ inst[i].made
    /\ LET r == BundleRun(inst[i], path, img, config, trust, tarFail, look, outcome)
       IN  ret' = [op |-> "Bundle", i |-> i, err |-> r.err, bytes |-> r.bytes,
                   cmds |-> r.cmds, evs |-> r.evs, path |-> path, img |-> img,
                   config |-> config, trust |-> trust, tarFail |-> tarFail,
                   look |-> look, outcome |-> outcome]
    /\ UNCHANGED <<goos, fs, taken, inst>>

(***************************************************************************)
(* Store (containerd.go:164-211).                                          *)
(***************************************************************************)
StorePrefix == <<"v","a","r","/","l","i","b","/","c","o","n","t","a","i","n","e","r","d","/">>

\* A tree under workDir/root is the sequence of nodes filepath.Walk visits,
\* in its (lexical) order, the root directory first: rel is the path below
\* the root, kind the file type Lstat reports, data the bytes os.Open reads
\* (for a symlink, those of its target).
Node(rel, kind, data) == [rel |-> rel, kind |-> kind, data |-> data]

\* the tree when workDir/root does not exist
NoRoot == [exists |-> FALSE, nodes |-> <<>>]
Tree(nodes) == [exists |-> TRUE, nodes |-> <<Node(<<>>, "dir", <<>>)>> \o nodes]

\* the path of the root directory of d, relative to /
InnerRoot(d) == Tail(d) \o RootSfx
InnerDirs(d) ==
    <<Node(<<"t","m","p">>, "dir", <<>>), Node(Tail(d), "dir", <<>>)>>

Trees(d) ==
    { NoRoot,
      Tree(<<>>),
      Tree(<<Node(<<"a">>, "reg", <<"x">>)>>),
      Tree(<<Node(<<"a">>, "reg", <<"x","y">>), Node(<<"b">>, "dir", <<>>),
             Node(<<"b","/","a">>, "reg", <<>>)>>),
      \* a symlink to an empty file, and one to a file with content
      Tree(<<Node(<<"a">>, "reg", <<>>), Node(<<"l">>, "symlink", <<>>)>>),
      Tree(<<Node(<<"a">>, "reg", <<"x">>), Node(<<"l">>, "symlink", <<"x">>)>>),
      \* the content store holds a copy of the path of the root itself:
      \* root/tmp/moby-ctdN/root is a regular file
      Tree(InnerDirs(d) \o <<Node(InnerRoot(d), "reg", <<"x">>)>>),
      \* ... or a directory with a file in it
      Tree(<<Node(<<"a">>, "reg", <<"x">>)>> \o InnerDirs(d)
           \o <<Node(InnerRoot(d), "dir", <<>>),
                Node(InnerRoot(d) \o <<"/","a">>, "reg", <<"y">>)>>) }

\* one file under the root of a directory that exists
FewTrees(d) == IF DirExists(d) THEN {Tree(<<Node(<<"a">>, "reg", <<"x">>)>>)} ELSE {NoRoot}

\* the step of Store whose library call returns an error: none, tarPrefix,
\* or one of the steps of the callback on the at-th node visited
NoFail == [at |-> 0, step |-> "none"]
StoreFails(tree) ==
    {NoFail, [at |-> 0, step |-> "tarPrefix"]}
    \cup {[at |-> k, step |-> st] :
            k \in 1..Len(tree.nodes), st \in {"walk", "header", "write", "open", "copy"}}

\* tar.FileInfoHeader: the type flag and the size recorded for a node
HeaderSize(n) == IF n.kind = "reg" THEN Len(n.data) ELSE 0

\* the header name Store gives the file at path `file` (lines 188-190)
StoreName(file, src) ==
    Join(StorePrefix, TrimPrefix(RemoveEvery(file, src), Slash))

\* a slip: a file that cannot be opened is skipped and the walk goes on
RECURSIVE StoreWalkSkipsUnreadable(_, _, _, _, _)
StoreWalkSkipsUnreadable(nodes, k, src, sf, sink) ==
    IF k > Len(nodes) THEN [err |-> Nil, sink |-> sink]
    ELSE
        LET n == nodes[k]
            file == IF n.rel = <<>> THEN src ELSE src \o Slash \o n.rel
            hdr == [name |-> StoreName(file, src), type |-> n.kind,
                    size |-> HeaderSize(n), body |-> <<>>]
            failed(st) == sf.at = k /\ sf.step = st
            written == Append(sink, hdr)
            copied == Append(sink, [hdr EXCEPT !.body = SubSeq(n.data, 1, hdr.size)])
        IN  IF failed("walk") THEN [err |-> "ErrWalk", sink |-> sink]
            ELSE IF failed("header") THEN [err |-> "ErrHeader", sink |-> sink]
            ELSE IF failed("write") THEN [err |-> "ErrWriteHeader", sink |-> sink]
            ELSE IF n.kind \in {"reg", "symlink", "link"} THEN
                IF failed("open")
                    THEN StoreWalkSkipsUnreadable(nodes, k + 1, src, sf, written)
                ELSE IF failed("copy") THEN [err |-> "ErrCopy", sink |-> written]
                ELSE IF Len(n.data) > hdr.size
                    THEN [err |-> "ErrWriteTooLong", sink |-> copied]
                ELSE StoreWalkSkipsUnreadable(nodes, k + 1, src, sf, copied)
            ELSE StoreWalkSkipsUnreadable(nodes, k + 1, src, sf, written)

\* The walk of Store from the k-th node on: the callback of filepath.Walk,
\* applied node by node until one application returns an error.
RECURSIVE StoreWalk(_, _, _, _, _)
StoreWalk(nodes, k, src, sf, sink) ==
    IF k > Len(nodes) THEN [err |-> Nil, sink |-> sink]
    ELSE
        LET n == nodes[k]
            file == IF n.rel = <<>> THEN src ELSE src \o Slash \o n.rel
            hdr == [name |-> StoreName(file, src), type |-> n.kind,
                    size |-> HeaderSize(n), body |-> <<>>]
            failed(st) == sf.at = k /\ sf.step = st
            written == Append(sink, hdr)
            copied == Append(sink, [hdr EXCEPT !.body = SubSeq(n.data, 1, hdr.size)])
        IN  IF failed("walk") THEN [err |-> "ErrWalk", sink |-> sink]
            ELSE IF failed("header") THEN [err |-> "ErrHeader", sink |-> sink]
            ELSE IF failed("write") THEN [err |-> "ErrWriteHeader", sink |-> sink]
            ELSE IF n.kind \in {"reg", "symlink", "link"} THEN
                IF failed("open") THEN [err |-> "ErrOpen", sink |-> written]
                ELSE IF failed("copy") THEN [err |-> "ErrCopy", sink |-> written]
                \* tar.Writer.Write past the size of the header
                ELSE IF Len(n.data) > hdr.size
                    THEN [err |-> "ErrWriteTooLong", sink |-> copied]
                ELSE StoreWalk(nodes, k + 1, src, sf, copied)
            ELSE StoreWalk(nodes, k + 1, src, sf, written)

\* The body of Store on the instance record c, with `tree` what is under
\* workDir/root. Returns the error, the entries written to w and how often
\* the tar writer was closed.
StoreRun(c, tree, sf) ==
    LET src == Join(c.dir, RootName)
        pre == TarPrefix(StorePrefix)
        w == IF ~tree.exists THEN [err |-> "ErrWalk", sink |-> pre]
             ELSE StoreWalk(tree.nodes, 1, src, sf, pre)
    IN  IF sf.step = "tarPrefix" THEN [err |-> "ErrTar", sink |-> <<>>, closes |-> 1]
        ELSE [err |-> w.err, sink |-> w.sink, closes |-> 1]

Store(i, tree, sf) ==
    /\ inst[i].made
    \* nothing is under a directory that has been removed
    /\ ~DirExists(inst[i].dir) => tree = NoRoot
    /\ LET r == StoreRun(inst[i], tree, sf)
       IN  ret' = [op |-> "Store", i |-> i, err |-> r.err, sink |-> r.sink,
                   closes |-> r.closes, tree |-> tree, sf |-> sf]
    /\ UNCHANGED <<goos, fs, taken, inst>>

\* The calls of the supervisor specification, over all instances.
CreateStep ==
    \E i \in Insts, d \in DirNames, fail \in CreateFails : NewContainerd(i, d, fail)
ExitStep == \E i \in Insts : DaemonExit(i)
KillStep == \E i \in Insts, sigOk, waitOk \in BOOLEAN : Kill(i, sigOk, waitOk)
CloseStep == \E i \in Insts, sigOk, waitOk \in BOOLEAN, rm \in RmOutcomes : Close(i, sigOk, waitOk, rm)
FetchStep ==
    \E i \in Insts, repo \in FewRefs, outcome \in FewOutcomes :
        Fetch(i, repo, FALSE, TRUE, outcome)
BundleStep ==
    \E i \in Insts, path \in FewPaths, img \in FewRefs, config \in FewConfigs :
        Bundle(i, path, img, config, FALSE, 0, TRUE, "zero")
StoreStep ==
    \E i \in Insts : \E tree \in FewTrees(inst[i].dir) : Store(i, tree, NoFail)

\* The calls that leave the supervisor's state alone, with all their inputs,
\* on the instance NewContainerd has just returned. None of them reads what an
\* earlier call returned, so one call per behaviour covers their results.
FetchCall ==
    /\ ret.op = "Create"
    /\ \E repo \in ExampleRefs, trust, look \in BOOLEAN, outcome \in RunOutcomes :
            Fetch(1, repo, trust, look, outcome)
BundleCall ==
    /\ ret.op = "Create"
    /\ \E path \in BundlePaths, img \in ExampleRefs, config \in Configs,
          trust, look \in BOOLEAN, tarFail \in 0..Len(BundleSteps),
          outcome \in RunOutcomes :
            Bundle(1, path, img, config, trust, tarFail, look, outcome)
StoreCall ==
    /\ ret.op = "Create"
    /\ \E tree \in Trees(inst[1].dir) : \E sf \in StoreFails(tree) :
            Store(1, tree, sf)

\* the state a successful NewContainerd leaves, for each directory name
AInit ==
    /\ goos \in {"darwin", "linux"}
    /\ \E d \in DirNames :
        /\ fs = [e \in DirNames |-> IF e = d
                    THEN [config |-> NewContainerdRun(d, "none", goos).config]
                    ELSE NoDir]
        /\ taken = {d}
        /\ inst = [i \in Insts |-> IF i = 1
                      THEN [made |-> TRUE, dir |-> d, shutdown |-> FALSE,
                            proc |-> "running", closed |-> FALSE]
                      ELSE NoInst]
        /\ ret = [op |-> "Create", i |-> 1, err |-> Nil,
                  evs |-> NewContainerdRun(d, "none", goos).evs, dir |-> d]

NInit == image \in RefInputs /\ named = <<>>

CallImageName ==
    /\ named = <<>>
    /\ named' = <<ImageName(image)>>
    /\ UNCHANGED image

\* ImageName applied to its own result, as Fetch does with a reference that
\* is already normalised
CallImageNameAgain ==
    /\ Len(named) = 1
    /\ named' = Append(named, ImageName(named[1]))
    /\ UNCHANGED image

\* the supervisor on a linux host, with the naming variables parked
Init == LInit /\ goos = "linux" /\ image = <<>> /\ named = <<>>
Next ==
    \/ CreateStep /\ UNCHANGED nvars
    \/ ExitStep /\ UNCHANGED nvars
    \/ KillStep /\ UNCHANGED nvars
    \/ CloseStep /\ UNCHANGED nvars
    \/ FetchStep /\ UNCHANGED nvars
    \/ BundleStep /\ UNCHANGED nvars
    \/ StoreStep /\ UNCHANGED nvars
Spec == Init /\ [][Next]_vars

\* creation and shutdown on either host operating system
InitHost == LInit /\ image = <<>> /\ named = <<>>
NextHost ==
    \/ CreateStep /\ UNCHANGED nvars
    \/ ExitStep /\ UNCHANGED nvars
    \/ KillStep /\ UNCHANGED nvars
    \/ CloseStep /\ UNCHANGED nvars
SpecHost == InitHost /\ [][NextHost]_vars

\* the naming function alone, with the supervisor variables parked
InitNaming == NInit /\ goos = "linux" /\ fs = [d \in DirNames |-> NoDir] /\ taken = {}
              /\ inst = [i \in Insts |-> NoInst] /\ ret = [op |-> "none"]
NextNaming ==
    \/ CallImageName /\ UNCHANGED lvars
    \/ CallImageNameAgain /\ UNCHANGED lvars
SpecNaming == InitNaming /\ [][NextNaming]_vars

\* Fetch, Bundle and Store on a running instance
InitArchive == AInit /\ image = <<>> /\ named = <<>>
NextArchive ==
    \/ FetchCall /\ UNCHANGED nvars
    \/ BundleCall /\ UNCHANGED nvars
    \/ StoreCall /\ UNCHANGED nvars
SpecArchive == InitArchive /\ [][NextArchive]_vars

(***************************************************************************)
(* Properties of the supervisor.                                           *)
(***************************************************************************)
Made(i) == inst[i].made

\* C1 as stated: whatever happened before it, a Close call leaves workDir
\* non-existent when it returns.
C1_CloseAlwaysRemovesDir ==
    ret.op = "Close" => ~DirExists(inst[ret.i].dir)

\* C1, amended: a Close call that returns no error leaves workDir
\* non-existent when it returns, whatever happened before it; a Close whose
\* kill step failed returns that error with workDir still in place.
C1_CloseSuccessRemovesDir ==
    ret.op = "Close" =>
        /\ ret.err = Nil => ~DirExists(inst[ret.i].dir)
        /\ ret.err = "ErrSignal" => DirExists(inst[ret.i].dir)

\* a Close that succeeded on a daemon that had exited on its own
C1_Witness ==
    /\ ret.op = "Close" /\ ret.err = Nil
    /\ ret.before.proc = "exited" /\ ~ret.before.shutdown
    /\ ~DirExists(inst[ret.i].dir)

\* C2: when the daemon binary is not on the search path, NewContainerd
\* returns no instance and the "Cannot find containerd in path" error, and the
\* temporary directory it allocated does not exist afterwards.
C2_NoDirLeaked ==
    ret.op = "Create" /\ ret.err = ErrNoContainerd =>
        ret.i = 0 /\ ~DirExists(ret.dir)

\* the process handle has not been reclaimed by a wait
Live(i) == inst[i].proc \in {"running", "exited"}

\* C3 as stated: between calls, either workDir exists and the process is
\* live, or workDir is removed and the process is terminated and reaped.
C3_DirAndProcessTogether ==
    \A i \in Insts : Made(i) =>
        \/ DirExists(inst[i].dir) /\ Live(i)
        \/ ~DirExists(inst[i].dir) /\ inst[i].proc = "reaped"

\* C3, amended: between calls, a removed workDir implies that the process
\* has been terminated and reaped and shutdownFlag is true (so a process that
\* is not reaped still has its workDir); a reaped process may still have its
\* workDir, namely after Kill and until a Close succeeds.
C3_RemovedImpliesReaped ==
    \A i \in Insts : Made(i) /\ ~DirExists(inst[i].dir) =>
        inst[i].proc = "reaped" /\ inst[i].shutdown

\* a Close after a Kill: the directory is gone, the process reaped
C3_Witness ==
    \E i \in Insts :
        /\ Made(i) /\ ~DirExists(inst[i].dir) /\ inst[i].proc = "reaped"
        /\ ret.op = "Close" /\ ret.i = i /\ ret.before.shutdown

\* position of the event e in the sequence evs, or 0
EvIndex(evs, e) ==
    IF \E k \in 1..Len(evs) : evs[k] = e
    THEN CHOOSE k \in 1..Len(evs) : evs[k] = e /\ \A m \in 1..(k - 1) : evs[m] # e
    ELSE 0

\* C8: whenever NewContainerd returns an instance, workDir exists,
\* config.toml was written before the process was launched, its four paths
\* start with workDir, the snapshotter is "naive" on darwin and "overlay"
\* otherwise, the process has been started and shutdown is false.
C8_CreatedInstance ==
    ret.op = "Create" /\ ret.err = Nil =>
        LET c == inst[ret.i]
            cfg == fs[c.dir].config
        IN  /\ c.made /\ c.dir = ret.dir
            /\ DirExists(c.dir)
            /\ cfg # NoFile
            /\ HasPrefix(cfg.state, c.dir)
            /\ HasPrefix(cfg.root, c.dir)
            /\ HasPrefix(cfg.grpcAddress, c.dir)
            /\ HasPrefix(cfg.debugAddress, c.dir)
            /\ cfg.snapshotter = (IF goos = "darwin" THEN Naive ELSE Overlay)
            /\ EvIndex(ret.evs, "WriteFile") > 0
            /\ EvIndex(ret.evs, "WriteFile") < EvIndex(ret.evs, "Start")
            /\ c.proc \in {"running", "exited"}
            /\ c.shutdown = FALSE

C8_Witness ==
    /\ ret.op = "Create" /\ ret.err = Nil /\ goos = "darwin"
    /\ fs[inst[ret.i].dir].config.snapshotter = Naive
    /\ inst[ret.i].proc = "running"

(***************************************************************************)
(* Properties of ImageName.                                                *)
(***************************************************************************)
\* The reference result of C4, computed without splitting: the number of
\* parts is the number of separators plus one, capped at three, and a tag is
\* present when the string holds a colon.
NormalizeRef(ref) ==
    LET parts == Min(Count(ref, "/") + 1, 3)
        full == IF parts = 1 THEN DockerIoLibrary \o ref
                ELSE IF parts = 2 THEN DockerIo \o ref
                ELSE ref
    IN  IF Count(full, ":") = 0 THEN full \o Latest ELSE full

\* C4: for every input, ImageName returns the reference result (one part:
\* "docker.io/library/" prepended; two parts: "docker.io/" prepended; three:
\* unchanged; then ":latest" appended exactly when no colon splits the
\* string); "alpine" and "library/alpine" give
\* "docker.io/library/alpine:latest" and "docker.io/library/alpine:3.5" is
\* returned unchanged.
C4_ImageNameIsReference ==
    named # <<>> =>
        /\ named[1] = NormalizeRef(image)
        /\ image = Alpine => named[1] = AlpineLatest
        /\ image = LibraryAlpine => named[1] = AlpineLatest
        /\ image = Alpine35 => named[1] = Alpine35

C4_Witness == image = LibraryAlpine /\ named = <<AlpineLatest>>

\* registry/namespace/name:tag: at least two separators, and the text after
\* the last separator holds a colon
WellFormedRef(s) ==
    /\ Count(s, "/") >= 2
    /\ Count(SubSeq(s, LastIndex(s, "/") + 1, Len(s)), ":") > 0

\* C5: for every input, the result of ImageName has the form
\* registry/namespace/name:tag, the text after the last "/" ending in ":" and
\* a tag, also when the registry carries a port.
C5_ResultWellFormed ==
    named # <<>> => WellFormedRef(named[1])

(***************************************************************************)
(* Properties of Fetch, Bundle and Store.                                  *)
(***************************************************************************)
\* the command line Fetch is to run for the reference repo on instance i
FetchArgv(i, repo) ==
    <<"--address", inst[i].dir \o GrpcSfx, "--root", inst[i].dir \o RootSfx,
      "fetch", NormalizeRef(repo)>>

\* C6: when Bundle succeeds, the archive returned holds exactly two
\* regular-file entries, <path>/config.json with the config bytes and then
\* <path>/image with the image reference as the caller wrote it, while the
\* fetch subprocess of the same call was given the normalised reference.
C6_BundleArchive ==
    ret.op = "Bundle" /\ ret.err = Nil =>
        LET regs == RegularEntries(ret.bytes)
        IN  /\ Len(regs) = 2
            /\ regs[1].name = ret.path \o Slash \o ConfigJson
            /\ regs[1].body = ret.config
            /\ regs[2].name = ret.path \o Slash \o ImageFile
            /\ regs[2].body = ret.img
            /\ Len(ret.cmds) = 1
            /\ ret.cmds[1].argv = FetchArgv(ret.i, ret.img)

\* a successful Bundle of "alpine": the entry says alpine, the fetch
\* docker.io/library/alpine:latest
C6_Witness ==
    /\ ret.op = "Bundle" /\ ret.err = Nil /\ ret.img = Alpine
    /\ ret.path = <<"c","/","d">>
    /\ RegularEntries(ret.bytes)[2].body = Alpine
    /\ ret.cmds[1].argv[6] = AlpineLatest

\* the indices of the regular files of a tree, in walk order
RegularNodes(tree) == {k \in 1..Len(tree.nodes) : tree.nodes[k].kind = "reg"}

\* C7: when Store succeeds, the archive written holds one entry for every
\* regular file under workDir/root, each entry's name starts with
\* var/lib/containerd/ and each entry's content is the file's bytes.
C7_StoreRoundTrip ==
    ret.op = "Store" /\ ret.err = Nil =>
        \E f \in [RegularNodes(ret.tree) -> 1..Len(ret.sink)] :
            /\ \A k, m \in RegularNodes(ret.tree) : k # m => f[k] # f[m]
            /\ \A k \in RegularNodes(ret.tree) :
                /\ ret.sink[f[k]].type = "reg"
                /\ HasPrefix(ret.sink[f[k]].name, StorePrefix)
                /\ ret.sink[f[k]].body = ret.tree.nodes[k].data

\* C9: Fetch returns an error without launching a subprocess when dist is not
\* on the search path; otherwise it launches exactly one subprocess, with
\* --address <workDir>/containerd.sock --root <workDir>/root fetch and the
\* normalised reference, and returns success exactly when that subprocess
\* started and exited with status zero; the trust argument changes neither.
C9_FetchCommand ==
    ret.op = "Fetch" =>
        IF ~ret.look THEN ret.err = ErrNoDist /\ ret.cmds = <<>>
        ELSE /\ Len(ret.cmds) = 1
             /\ ret.cmds[1].argv = FetchArgv(ret.i, ret.repo)
             /\ ret.err = Nil <=> (ret.cmds[1].started /\ ret.cmds[1].status = 0)

\* a Fetch of library/alpine with trust set that succeeded
C9_Witness ==
    /\ ret.op = "Fetch" /\ ret.err = Nil /\ ret.trust /\ ret.repo = LibraryAlpine
    /\ ret.cmds[1].argv[6] = AlpineLatest

(***************************************************************************)
(* Properties of several instances.                                        *)
(***************************************************************************)
NoSharedDir ==
    \A i, j \in Insts : Made(i) /\ Made(j) /\ i # j => inst[i].dir # inst[j].dir

CallOps == {"Kill", "Close", "Fetch", "Store", "Bundle"}

\* this step did not terminate the process of j, remove its directory or
\* change its shutdown flag
Unaffected(j) ==
    /\ inst'[j].proc = inst[j].proc
    /\ inst'[j].shutdown = inst[j].shutdown
    /\ Made(j) => (fs'[inst[j].dir] # NoDir <=> fs[inst[j].dir] # NoDir)

Signalled(r) == EvIndex(r.evs, "signal") > 0

\* C11 as stated: over any sequence of Kill and Close calls on one instance,
\* shutdownFlag never goes back to false and guards against double-kill: a
\* call made with the flag already true (a signal went out before it) sends
\* no further terminate signal.
C11_FlagGuardsEveryKill ==
    [][/\ \A i \in Insts : inst[i].shutdown => inst'[i].shutdown
       /\ (ret'.op \in {"Kill", "Close"} /\ ~(\E k \in Insts : DaemonExit(k))
            /\ inst[ret'.i].shutdown) => ~Signalled(ret')]_vars

\* C11, amended: shutdownFlag never changes from true to false, so it
\* changes from false to true at most once; it is true after every Kill that
\* returned success; and it guards Close only: a Close made with the flag
\* already true attempts no terminate signal, while Kill attempts one on
\* every call.
C11_FlagMonotoneGuardsClose ==
    [][/\ \A i \in Insts : inst[i].shutdown => inst'[i].shutdown
       /\ (ret'.op \in {"Kill", "Close"} /\ ~(\E k \in Insts : DaemonExit(k))) =>
            /\ ret'.op = "Close" /\ inst[ret'.i].shutdown => ~Signalled(ret')
            /\ ret'.op = "Kill" => Signalled(ret')
            /\ ret'.op = "Kill" /\ ret'.err = Nil => inst'[ret'.i].shutdown]_vars

\* a Close after a successful Kill that sent no signal of its own
C11_Witness ==
    /\ ret.op = "Close" /\ ret.before.shutdown /\ ret.err = Nil
    /\ ~Signalled(ret) /\ inst[ret.i].shutdown

\* C12: when Close is called with shutdownFlag false and the terminate signal
\* fails, Close returns that error, does not attempt to remove workDir (the
\* directory still exists afterwards) and leaves shutdownFlag false; and every
\* Close called with shutdownFlag false attempts the kill, so a later Close
\* attempts it again.
C12_CloseKillFailure ==
    [][\A i \in Insts, rm \in RmOutcomes, waitOk \in BOOLEAN :
        /\ (~inst[i].shutdown /\ Close(i, FALSE, waitOk, rm)) =>
              /\ ret'.err = "ErrSignal"
              /\ EvIndex(ret'.evs, "RemoveAll") = 0
              /\ fs' = fs /\ fs'[inst[i].dir] # NoDir
              /\ ~inst'[i].shutdown
        /\ \A sigOk \in BOOLEAN :
              (~inst[i].shutdown /\ Close(i, sigOk, waitOk, rm)) => Signalled(ret')]_vars

\* a Close on a running instance whose kill failed; the next Close can retry
C12_Witness ==
    /\ ret.op = "Close" /\ ret.err = "ErrSignal" /\ ~ret.before.shutdown
    /\ ret.before.proc = "running"
    /\ DirExists(inst[ret.i].dir) /\ ~inst[ret.i].shutdown

\* the signal step of a Kill on instance i fails: the system call fails, or
\* the process has been waited for already
SignalFails(i, sigOk) == ~sigOk \/ inst[i].proc = "reaped"

\* C13: Kill sends the terminate signal, then waits, then sets shutdownFlag,
\* in this order. Whenever Kill returns success the process has been waited
\* for and shutdownFlag is true, whatever the wait returned; whenever the
\* signal step fails Kill returns the error without waiting and without
\* changing shutdownFlag. Kill never removes workDir.
C13_KillSteps ==
    [][\A i \in Insts, sigOk, waitOk \in BOOLEAN :
        Kill(i, sigOk, waitOk) =>
            /\ fs' = fs
            /\ SignalFails(i, sigOk) =>
                  /\ ret'.err # Nil
                  /\ EvIndex(ret'.evs, "wait") = 0
                  /\ EvIndex(ret'.evs, "setflag") = 0
                  /\ inst' = inst
            /\ ~SignalFails(i, sigOk) => ret'.err = Nil
            /\ ret'.err = Nil =>
                  /\ ret'.evs = <<"signal", "wait", "setflag">>
                  /\ inst'[i].proc = "reaped"
                  /\ inst'[i].shutdown]_vars

\* a Kill that returned success although the wait returned an error
C13_Witness ==
    /\ ret.op = "Kill" /\ ret.err = Nil /\ ret.waitErr = "ErrWait"
    /\ inst[ret.i].proc = "reaped" /\ inst[ret.i].shutdown
    /\ DirExists(inst[ret.i].dir)

\* C14: Kill does not consult shutdownFlag. A Kill that directly follows a
\* successful Kill on the same instance attempts a terminate signal again,
\* returns (success or an error value), and leaves shutdownFlag true, the
\* process reaped and workDir in place.
C14_SecondKill ==
    [][\A i \in Insts, sigOk, waitOk \in BOOLEAN :
        (ret.op = "Kill" /\ ret.i = i /\ ret.err = Nil /\ Kill(i, sigOk, waitOk)) =>
            /\ Signalled(ret')
            /\ ret'.op = "Kill" /\ ret'.err \in {Nil, "ErrSignal"}
            /\ inst'[i].shutdown /\ inst'[i].proc = "reaped"
            /\ fs' = fs /\ fs'[inst[i].dir] # NoDir]_vars

\* the second of two Kill calls has returned the error of the signal
C14_Witness ==
    /\ ret.op = "Kill" /\ ret.err = "ErrSignal" /\ Signalled(ret)
    /\ inst[ret.i].proc = "reaped" /\ inst[ret.i].shutdown
    /\ DirExists(inst[ret.i].dir)

\* the lifecycle state of an instance record: Running from the return of
\* NewContainerd, Killed once shutdownFlag is true, Closed once a Close has
\* returned success
Phase(c) ==
    IF ~c.made THEN "None"
    ELSE IF c.closed THEN "Closed"
    ELSE IF c.shutdown THEN "Killed"
    ELSE "Running"

\* the transitions of Created -> Running -> (Killed) -> Closed, a state may
\* also be kept
PhaseSteps ==
    {<<"None", "None">>, <<"None", "Running">>, <<"Running", "Running">>,
     <<"Running", "Killed">>, <<"Running", "Closed">>, <<"Killed", "Killed">>,
     <<"Killed", "Closed">>, <<"Closed", "Closed">>}

\* C15: every step takes each instance along Created -> Running -> (Killed)
\* -> Closed, Running -> Closed included, and Closed is absorbing: once a
\* Close has returned success, no later call makes the process live again,
\* recreates workDir or sets shutdownFlag back to false.
C15_Lifecycle ==
    [][\A i \in Insts :
        /\ <<Phase(inst[i]), Phase(inst'[i])>> \in PhaseSteps
        /\ Phase(inst[i]) = "Closed" =>
              /\ inst'[i].proc = "reaped"
              /\ inst'[i].shutdown
              /\ inst'[i].dir = inst[i].dir
              /\ fs[inst[i].dir] = NoDir /\ fs'[inst[i].dir] = NoDir]_vars

\* a call was made on an instance that a Close on the running daemon had closed
C15_Witness ==
    \E i \in Insts :
        /\ Phase(inst[i]) = "Closed"
        /\ ret.op \in {"Kill", "Fetch", "Store", "Bundle"} /\ ret.i = i
        /\ inst[i].proc = "reaped" /\ inst[i].shutdown /\ ~DirExists(inst[i].dir)

\* C16: a Close called with shutdownFlag already true sends no terminate
\* signal and only removes workDir; when workDir is already gone, as in a
\* second Close after a successful first one, the removal counts as success:
\* Close returns no error and leaves the instance and the file system as they
\* were.
C16_CloseAfterShutdown ==
    [][\A i \in Insts, sigOk, waitOk \in BOOLEAN, rm \in RmOutcomes :
        (inst[i].shutdown /\ Close(i, sigOk, waitOk, rm)) =>
            /\ ~Signalled(ret')
            /\ ret'.evs = <<"RemoveAll">>
            /\ inst'[i].proc = inst[i].proc /\ inst'[i].shutdown
            /\ rm = "ok" => ret'.err = Nil /\ fs'[inst[i].dir] = NoDir
            /\ fs[inst[i].dir] = NoDir =>
                  /\ ret'.err = Nil
                  /\ fs' = fs
                  /\ inst' = inst]_vars

\* a second Close after a successful first one has returned success
C16_Witness ==
    /\ ret.op = "Close" /\ ret.before.closed /\ ret.err = Nil
    /\ ret.evs = <<"RemoveAll">>
    /\ inst[ret.i] = ret.before

(***************************************************************************)
(* More properties of Bundle, Store and ImageName.                         *)
(***************************************************************************)
\* the number of times the event e occurs in evs
Times(evs, e) == Cardinality({k \in 1..Len(evs) : evs[k] = e})

\* C17: Bundle calls Fetch at most once, and only after every archive step
\* up to the close of the tar writer succeeded; when an archive step fails
\* Fetch is never called; when Fetch fails Bundle returns Fetch's error with
\* an empty byte result; Bundle returns non-empty bytes exactly when the
\* archive steps and Fetch all succeeded.
C17_BundleFetchLast ==
    ret.op = "Bundle" =>
        LET f == FetchRun(inst[ret.i], ret.img, ret.trust, ret.look, ret.outcome)
        IN  /\ Times(ret.evs, "Fetch") <= 1
            /\ Times(ret.evs, "Fetch") = 1 => ret.evs = BundleSteps \o <<"Fetch">>
            /\ ret.tarFail # 0 =>
                  /\ Times(ret.evs, "Fetch") = 0 /\ ret.cmds = <<>>
                  /\ ret.err # Nil /\ ret.bytes = <<>>
            /\ ret.tarFail = 0 => Times(ret.evs, "Fetch") = 1 /\ ret.cmds = f.cmds
            /\ (ret.tarFail = 0 /\ f.err # Nil) => ret.err = f.err /\ ret.bytes = <<>>
            /\ ret.bytes # <<>> <=> (ret.tarFail = 0 /\ f.err = Nil)
            /\ ret.bytes # <<>> => ret.err = Nil

\* the archive was built and closed, then the fetch subprocess exited non-zero
C17_Witness ==
    /\ ret.op = "Bundle" /\ ret.tarFail = 0 /\ ret.look /\ ret.outcome = "nonzero"
    /\ ret.err = "ErrExit" /\ ret.bytes = <<>>
    /\ ret.evs = BundleSteps \o <<"Fetch">> /\ Len(ret.cmds) = 1

\* the entries Store wrote for the nodes of the walk, after those of tarPrefix
WalkEntries(sink) == SubSeq(sink, Len(TarPrefix(StorePrefix)) + 1, Len(sink))

\* C18: for every entry the walk of Store visits at workDir/root/<rel>, also
\* when <rel> holds the text of workDir/root again, the header name written
\* is var/lib/containerd/ followed by <rel>.
C18_StoreNames ==
    ret.op = "Store" /\ ret.sf.step # "tarPrefix" =>
        \A k \in 1..Len(WalkEntries(ret.sink)) :
            ret.tree.nodes[k].rel # <<>> =>
                WalkEntries(ret.sink)[k].name = StorePrefix \o ret.tree.nodes[k].rel

\* the error Store returns when the step st of the callback fails
StepError(st) ==
    IF st = "walk" THEN "ErrWalk" ELSE IF st = "header" THEN "ErrHeader"
    ELSE IF st = "write" THEN "ErrWriteHeader" ELSE IF st = "open" THEN "ErrOpen"
    ELSE "ErrCopy"

\* C19: the first error at any step of Store (prefix headers, walk error,
\* header build, header write, file open, content copy) stops it: what was
\* written before stays as it was, no header or content is written for that
\* step or any later entry, and that error is returned; without an error
\* every node of the walk has its entry; and on every path the tar writer is
\* closed exactly once.
C19_StoreFirstError ==
    ret.op = "Store" =>
        LET clean == StoreRun(inst[ret.i], ret.tree, NoFail)
            full == WalkEntries(clean.sink)
            got == WalkEntries(ret.sink)
            k == ret.sf.at
            st == ret.sf.step
            \* the walk without the failure gets as far as the step st of node k
            reached == /\ ret.tree.exists /\ k >= 1
                       /\ Len(full) >= k
                       /\ st \in {"open", "copy"} =>
                            ret.tree.nodes[k].kind \in {"reg", "symlink", "link"}
            kept == IF st \in {"open", "copy"} THEN k ELSE k - 1
        IN  /\ ret.closes = 1
            /\ st = "tarPrefix" => ret.err = "ErrTar" /\ got = <<>>
            /\ ~ret.tree.exists /\ st # "tarPrefix" => ret.err = "ErrWalk" /\ got = <<>>
            /\ reached =>
                  /\ ret.err = StepError(st)
                  /\ Len(got) = kept
                  /\ \A j \in 1..(k - 1) : got[j] = full[j]
                  /\ kept = k => got[k] = [full[k] EXCEPT !.body = <<>>]
            /\ ret.err = Nil => Len(got) = Len(ret.tree.nodes)

\* the content copy of the second node failed: its header is the last thing
\* written, the third node has no entry
C19_Witness ==
    /\ ret.op = "Store" /\ ret.sf = [at |-> 2, step |-> "copy"]
    /\ Len(ret.tree.nodes) >= 3
    /\ ret.err = "ErrCopy" /\ Len(WalkEntries(ret.sink)) = 2 /\ ret.closes = 1

\* C20: ImageName is idempotent: applied to its own result it returns that
\* result unchanged.
C20_ImageNameIdempotent ==
    Len(named) = 2 => named[2] = named[1]

\* alpine normalised twice
C20_Witness == image = Alpine /\ named = <<AlpineLatest, AlpineLatest>>

====
